---- MODULE Spec2Model ----
(***************************************************************************)
(* Model of the task board manager of "Version 2.0"                        *)
(* (advanced_task_board.py, advanced_task_board_manager.py).               *)
(*                                                                         *)
(* Conventions of the translation:                                        *)
(*  - a call of a coroutine method yields the method's result (the call    *)
(*    is read as awaited), and the names taken from the openhands package  *)
(*    (Event, AgentFinishAction, AgentRejectAction, EventStream.emit)      *)
(*    exist;                                                               *)
(*  - an operation is a function from a board to a result [b, err, ret]:  *)
(*    err is the Python exception that left the method ("none" on a normal *)
(*    return), b is the board as the method left it, writes made before a  *)
(*    raise included;                                                      *)
(*  - an event sink is attached; events holds what the last operation      *)
(*    emitted, in emission order;                                          *)
(*  - task ids: n stands for "task_n"; SubId(p, i) for "<p>_sub_<i>";      *)
(*  - last_updated, description, assigned_agent and history are written    *)
(*    but never read by the manager and are left out.                      *)
(***************************************************************************)
EXTENDS FiniteSets, Integers, Sequences, TLC

\* ---------------------------------------------------------------- bounds
MaxTasks    == 3   \* ids "task_1" .. "task_MaxTasks" offered to add_task
MaxIter     == 2   \* max_iterations of a new entry ranges over 1..MaxIter
MaxFeedback == 3   \* verdicts recorded per task before the driver stops sending
MaxSteps    == 4   \* operations issued in one run of the general driver
MaxGraphSteps   == 4   \* ... of the graph driver
MaxCascadeSteps == 5   \* ... of the cascade driver
MaxReviewSteps  == 5   \* ... of the review driver
MaxSchedSteps   == 4   \* ... of the scheduler driver
MaxRecoverySteps == 5  \* ... of the recovery driver
MaxPrioritySteps == 3  \* ... of the priority driver
MaxInterleaveSteps == 5  \* ... of the interleaving driver
MaxLifecycleSteps == 5   \* ... of the lifecycle driver
RecursionLimit == 16     \* nested calls the interpreter allows

\* ------------------------------------------------------ program constants
feedback_threshold == 3
DefaultPriority    == 5
SubtaskPriority    == 3
DefaultMaxIterations == 10

WAITING        == "WAITING"
IN_PROGRESS    == "IN_PROGRESS"
PENDING_REVIEW == "PENDING_REVIEW"
REWORK_NEEDED  == "REWORK_NEEDED"
COMPLETE       == "COMPLETE"
STALLED        == "STALLED"
ABANDONED      == "ABANDONED"

TaskStatus ==
  {WAITING, IN_PROGRESS, PENDING_REVIEW, REWORK_NEEDED, COMPLETE, STALLED, ABANDONED}

\* mutants of the table: a request for the current status is accepted;
\* COMPLETE may be left again
VALID_TRANSITIONS_same(s) ==
  {s} \cup (CASE s = WAITING        -> {IN_PROGRESS, ABANDONED}
             [] s = IN_PROGRESS    -> {PENDING_REVIEW, STALLED}
             [] s = PENDING_REVIEW -> {COMPLETE, REWORK_NEEDED}
             [] s = REWORK_NEEDED  -> {IN_PROGRESS, ABANDONED}
             [] s = STALLED        -> {IN_PROGRESS, ABANDONED}
             [] OTHER              -> {})

VALID_TRANSITIONS_reopen(s) ==
  CASE s = WAITING        -> {IN_PROGRESS, ABANDONED}
    [] s = IN_PROGRESS    -> {PENDING_REVIEW, STALLED}
    [] s = PENDING_REVIEW -> {COMPLETE, REWORK_NEEDED}
    [] s = REWORK_NEEDED  -> {IN_PROGRESS, ABANDONED}
    [] s = STALLED        -> {IN_PROGRESS, ABANDONED}
    [] s = COMPLETE       -> {IN_PROGRESS}
    [] OTHER              -> {}

VALID_TRANSITIONS(s) ==
  CASE s = WAITING        -> {IN_PROGRESS, ABANDONED}
    [] s = IN_PROGRESS    -> {PENDING_REVIEW, STALLED}
    [] s = PENDING_REVIEW -> {COMPLETE, REWORK_NEEDED}
    [] s = REWORK_NEEDED  -> {IN_PROGRESS, ABANDONED}
    [] s = STALLED        -> {IN_PROGRESS, ABANDONED}
    [] OTHER              -> {}

\* ------------------------------------------------------------- inputs
BaseIds        == 1..MaxTasks
SubId(p, i)    == 10 * p + i
PriorityInputs == {0, 1, SubtaskPriority, DefaultPriority}
Verdicts       == {"approve", "reject"}
Payloads       == {7}

\* ------------------------------------------------------------- outputs
\* task.output is None, an opaque payload handed in by an executor, or the
\* dict built in update_task_status (dependency id -> that task's output).
EmptyMap     == [x \in {} |-> 0]
NoOutput     == [kind |-> "none", val |-> 0, map |-> EmptyMap]
Payload(p)   == [kind |-> "payload", val |-> p, map |-> EmptyMap]
MapOutput(m) == [kind |-> "map", val |-> 0, map |-> m]
Falsy(o)     == o.kind = "none" \/ (o.kind = "map" /\ DOMAIN o.map = {})

\* ------------------------------------------------------------- helpers
Min(S) == CHOOSE x \in S : \A y \in S : x <= y

RECURSIVE SortedSeq(_)
SortedSeq(S) == IF S = {} THEN <<>> ELSE <<Min(S)>> \o SortedSeq(S \ {Min(S)})

Range(q) == {q[i] : i \in DOMAIN q}

IndexOf(q, x) == Min({i \in DOMAIN q : q[i] = x})

RECURSIVE Without(_, _)
Without(q, x) ==
  IF q = <<>> THEN <<>>
  ELSE IF Head(q) = x THEN Without(Tail(q), x)
       ELSE <<Head(q)>> \o Without(Tail(q), x)

Drop(f, x) == [k \in DOMAIN f \ {x} |-> f[k]]
Put(f, k, v) == [j \in DOMAIN f \cup {k} |-> IF j = k THEN v ELSE f[j]]

\* ------------------------------------------------------------- state
VARIABLES tasks, dependency_graph, order, priority_queue, events, last, steps,
          board, agent

vars == <<tasks, dependency_graph, order, priority_queue, events, last, steps,
          board, agent>>

\* tasks .. last belong to the Version 2.0 manager; board is the tasks dict of
\* the TaskStatusBoard of src/state/board.py and agent is what the last call
\* of an agent or of the system of src/agents, src/core left behind
managerVars == <<tasks, dependency_graph, order, priority_queue, events, last>>

\* the board an operation works on
\* calls counts the entries into update_task_status that the current
\* operation has made so far
Board == [tasks |-> tasks, graph |-> dependency_graph, order |-> order,
          pq |-> priority_queue, events |-> <<>>, calls |-> 0]

Ok(b)        == [b |-> b, err |-> "none", ret |-> 0]
Return(b, v) == [b |-> b, err |-> "none", ret |-> v]
Raise(b, e)  == [b |-> b, err |-> e, ret |-> 0]

TaskBoardEntry(deps, prio, maxit) ==
  [status |-> WAITING, dependencies |-> deps, output |-> NoOutput,
   priority |-> prio, max_iterations |-> maxit, current_iterations |-> 0,
   verification_feedback |-> <<>>]

Event(type, task_id) ==
  [type |-> type, task |-> task_id, old |-> "", new |-> "", deps |-> {}, n |-> 0]

emit_task_event(b, ev) == [b EXCEPT !.events = Append(@, ev)]

\* ------------------------------------------------- dependency management
\* mutant: every task is taken to have its dependencies complete
check_dependencies_any(b, task_id) == TRUE

check_dependencies(b, task_id) ==
  \A dep_id \in b.graph[task_id] : b.tasks[dep_id].status = COMPLETE

\* the keys of dependency_graph, in insertion order, whose set holds task_id
get_blocked_tasks(b, task_id) ==
  SelectSeq(b.order, LAMBDA other_id : task_id \in b.graph[other_id])

\* detect_circular_dependencies: DFS with a path list; st = [visited, path, cycles]
RECURSIVE dfs(_, _, _)
RECURSIVE dfs_each(_, _, _)
dfs(graph, st, task_id) ==
  IF task_id \in Range(st.path)
  THEN [st EXCEPT !.cycles =
          Append(@, SubSeq(st.path, IndexOf(st.path, task_id), Len(st.path))
                    \o <<task_id>>)]
  ELSE IF task_id \in st.visited THEN st
  ELSE LET st1 == [st EXCEPT !.visited = @ \cup {task_id},
                             !.path = Append(@, task_id)]
           st2 == dfs_each(graph, st1, SortedSeq(graph[task_id]))
       IN  [st2 EXCEPT !.path = SubSeq(@, 1, Len(@) - 1)]
dfs_each(graph, st, ids) ==
  IF ids = <<>> THEN st
  ELSE dfs_each(graph, dfs(graph, st, Head(ids)), Tail(ids))

detect_circular_dependencies(graph, keys) ==
  dfs_each(graph, [visited |-> {}, path |-> <<>>, cycles |-> <<>>], keys).cycles

\* _detect_cycles_in_graph: DFS with a path set, stops at the first cycle;
\* st = [found, visited, path]
RECURSIVE visit(_, _, _)
RECURSIVE visit_any(_, _, _)
visit(graph, st, node) ==
  IF node \in st.path THEN [st EXCEPT !.found = TRUE]
  ELSE IF node \in st.visited THEN st
  ELSE LET st1 == [st EXCEPT !.visited = @ \cup {node}, !.path = @ \cup {node}]
           st2 == visit_any(graph, st1,
                            SortedSeq(IF node \in DOMAIN graph THEN graph[node] ELSE {}))
       IN  IF st2.found THEN st2 ELSE [st2 EXCEPT !.path = @ \ {node}]
visit_any(graph, st, nodes) ==
  IF nodes = <<>> \/ st.found THEN st
  ELSE visit_any(graph, visit(graph, st, Head(nodes)), Tail(nodes))

\* mutant: only a task that names itself is taken for a cycle
detect_cycles_in_graph_self(graph, keys) ==
  \E k \in DOMAIN graph : k \in graph[k]

detect_cycles_in_graph(graph, keys) ==
  visit_any(graph, [found |-> FALSE, visited |-> {}, path |-> {}], keys).found

\* ------------------------------------------------------- status machine
StatusEvent(task_id, old, new) ==
  [type |-> "STATUS_CHANGED", task |-> task_id, old |-> old, new |-> new,
   deps |-> {}, n |-> 0]

\* mutant: the key is set but the producing task's output is not stored
MergeOutput_empty(out, task_id, value) ==
  MapOutput(Put(IF Falsy(out) THEN EmptyMap ELSE out.map, task_id, NoOutput))

\* dep_task.output[task_id] = task.output, after "if not dep_task.output: = {}"
MergeOutput(out, task_id, value) ==
  MapOutput(Put(IF Falsy(out) THEN EmptyMap ELSE out.map, task_id, value))

RECURSIVE update_task_status(_, _, _)
RECURSIVE complete_each(_, _, _)
RECURSIVE propagate_each(_, _)
RECURSIVE handle_partial_failure(_, _)
RECURSIVE escalate_task(_, _)

\* the COMPLETE branch: the loop over get_blocked_tasks(task_id)
complete_each(b, task_id, blocked) ==
  IF blocked = <<>> THEN Ok(b)
  ELSE LET dep_task_id == Head(blocked)
           dep_task    == b.tasks[dep_task_id]
       IN  IF dep_task.output.kind = "payload" THEN Raise(b, "TypeError")
           ELSE LET b1 == [b EXCEPT !.tasks[dep_task_id].output =
                              MergeOutput(@, task_id, b.tasks[task_id].output)]
                IN  IF check_dependencies(b1, dep_task_id)
                    THEN LET r == update_task_status(b1, dep_task_id, IN_PROGRESS)
                         IN  IF r.err # "none" THEN r
                             ELSE complete_each(r.b, task_id, Tail(blocked))
                    ELSE complete_each(b1, task_id, Tail(blocked))

\* propagate_status(task_id, ABANDONED, reason): every direct dependent is
\* sent to ABANDONED through update_task_status, one hop at a time
propagate_each(b, blocked) ==
  IF blocked = <<>> THEN Ok(b)
  ELSE LET r == update_task_status(b, Head(blocked), ABANDONED)
       IN  IF r.err # "none" THEN r ELSE propagate_each(r.b, Tail(blocked))

propagate_status(b, task_id) == propagate_each(b, get_blocked_tasks(b, task_id))

handle_partial_failure(b, task_id) ==
  LET task == b.tasks[task_id]
  IN  IF \E dep_id \in task.dependencies : dep_id \notin DOMAIN b.tasks
      THEN Raise(b, "KeyError")
      ELSE LET failed_deps == {dep_id \in task.dependencies :
                                 b.tasks[dep_id].status \in {ABANDONED, STALLED}}
           IN  IF failed_deps # {}
               THEN update_task_status(
                      emit_task_event(b, [Event("DEPENDENCY_RECOVERY_NEEDED", task_id)
                                            EXCEPT !.deps = failed_deps]),
                      task_id, STALLED)
               ELSE Ok(b)

escalate_task(b, task_id) ==
  update_task_status(emit_task_event(b, Event("TASK_ESCALATED", task_id)),
                     task_id, STALLED)

\* the interpreter ends a chain of calls that has not returned after
\* RecursionLimit entries with RecursionError
update_task_status(b0, task_id, new_status) ==
  IF b0.calls >= RecursionLimit THEN Raise(b0, "RecursionError")
  ELSE IF task_id \notin DOMAIN b0.tasks
  THEN Raise([b0 EXCEPT !.calls = @ + 1], "KeyError")
  ELSE
    LET b == [b0 EXCEPT !.calls = @ + 1]
        old_status == b.tasks[task_id].status
    IN  IF new_status \notin VALID_TRANSITIONS(old_status)
        THEN Raise(b, "InvalidTransitionError")
        ELSE
          LET b1 == [b EXCEPT !.tasks[task_id].status = new_status]
              r  == CASE new_status = COMPLETE ->
                          complete_each(b1, task_id, get_blocked_tasks(b1, task_id))
                      [] new_status = ABANDONED -> propagate_status(b1, task_id)
                      [] new_status = STALLED -> handle_partial_failure(b1, task_id)
                      [] new_status = REWORK_NEEDED ->
                          LET b2 == [b1 EXCEPT !.tasks[task_id].current_iterations = @ + 1]
                          IN  IF b2.tasks[task_id].current_iterations
                                   >= b2.tasks[task_id].max_iterations
                              THEN escalate_task(b2, task_id)
                              ELSE Ok(b2)
                      [] OTHER -> Ok(b1)
          IN  IF r.err # "none" THEN r
              ELSE Ok(emit_task_event(r.b, StatusEvent(task_id, old_status, new_status)))

\* ------------------------------------------------------------ operations
add_task(b, id, task) ==
  IF id \in DOMAIN b.tasks THEN Raise(b, "ValueError")
  ELSE IF \E dep_id \in task.dependencies : dep_id \notin DOMAIN b.tasks
  THEN Raise(b, "ValueError")
  ELSE
    LET b1 == [b EXCEPT !.graph = Put(@, id, task.dependencies),
                        !.order = Append(@, id)]
    IN  IF detect_circular_dependencies(b1.graph, b1.order) # <<>>
        THEN Raise(b, "CircularDependencyError")
        ELSE
          LET b2 == [b1 EXCEPT !.tasks = Put(@, id, task),
                               !.pq = @ \cup {<<task.priority, id>>}]
              initial_status ==
                IF task.dependencies # {} THEN WAITING ELSE IN_PROGRESS
              r == update_task_status(b2, id, initial_status)
          IN  IF r.err # "none" THEN r
              ELSE Ok(emit_task_event(r.b, Event("TASK_ADDED", id)))

RECURSIVE recover_each(_, _)
recover_each(b, blocked) ==
  IF blocked = <<>> THEN Ok(b)
  ELSE LET r == handle_partial_failure(b, Head(blocked))
       IN  IF r.err # "none" THEN r ELSE recover_each(r.b, Tail(blocked))

\* mutant: the removed id is left in the dependency sets of the other tasks
remove_task_keep(b, task_id) ==
  IF task_id \notin DOMAIN b.tasks THEN Raise(b, "KeyError")
  ELSE
    LET r == recover_each(b, get_blocked_tasks(b, task_id))
    IN  IF r.err # "none" THEN r
        ELSE
          LET b1 == [r.b EXCEPT
                       !.tasks = Drop(@, task_id),
                       !.order = Without(@, task_id),
                       !.pq = {e \in @ : e[2] # task_id},
                       !.graph = Drop(@, task_id)]
          IN  Ok(emit_task_event(b1, Event("TASK_REMOVED", task_id)))

remove_task(b, task_id) ==
  IF task_id \notin DOMAIN b.tasks THEN Raise(b, "KeyError")
  ELSE
    LET r == recover_each(b, get_blocked_tasks(b, task_id))
    IN  IF r.err # "none" THEN r
        ELSE
          LET b1 == [r.b EXCEPT
                       !.tasks = Drop(@, task_id),
                       !.order = Without(@, task_id),
                       !.pq = {e \in @ : e[2] # task_id},
                       !.graph = [k \in DOMAIN @ \ {task_id} |-> @[k] \ {task_id}]]
          IN  Ok(emit_task_event(b1, Event("TASK_REMOVED", task_id)))

handle_iteration_limit_reached(b, task_id) ==
  IF b.tasks[task_id].status \in {REWORK_NEEDED, PENDING_REVIEW}
  THEN update_task_status(b, task_id, STALLED)
  ELSE Ok(b)

increment_iteration(b, task_id) ==
  IF task_id \notin DOMAIN b.tasks THEN Raise(b, "KeyError")
  ELSE
    LET b1 == [b EXCEPT !.tasks[task_id].current_iterations = @ + 1]
        r  == IF b1.tasks[task_id].current_iterations >= b1.tasks[task_id].max_iterations
              THEN handle_iteration_limit_reached(b1, task_id)
              ELSE Ok(b1)
    IN  IF r.err # "none" THEN r
        ELSE Ok(emit_task_event(r.b,
                  [Event("ITERATION_INCREMENTED", task_id)
                     EXCEPT !.n = r.b.tasks[task_id].current_iterations]))

request_verification(b, task_id) ==
  IF task_id \notin DOMAIN b.tasks THEN Raise(b, "KeyError")
  ELSE
    LET b1 == IF b.tasks[task_id].status = REWORK_NEEDED
              THEN [b EXCEPT !.tasks[task_id].verification_feedback = <<>>]
              ELSE b
        r  == update_task_status(b1, task_id, PENDING_REVIEW)
    IN  IF r.err # "none" THEN r
        ELSE Ok(emit_task_event(r.b,
                  [Event("VERIFICATION_REQUESTED", task_id)
                     EXCEPT !.n = r.b.tasks[task_id].current_iterations]))

\* kind is "finish" (AgentFinishAction carrying output) or "reject"
\* (AgentRejectAction)
handle_event(b, kind, task_id, output) ==
  IF task_id \notin DOMAIN b.tasks THEN Ok(b)
  ELSE IF kind = "finish"
       THEN request_verification([b EXCEPT !.tasks[task_id].output = output], task_id)
       ELSE update_task_status(b, task_id, ABANDONED)

handle_verification_result(b, task_id, passed) ==
  IF task_id \notin DOMAIN b.tasks THEN Raise(b, "KeyError")
  ELSE IF b.tasks[task_id].status # PENDING_REVIEW THEN Raise(b, "StateError")
  ELSE
    LET b1 == [b EXCEPT !.tasks[task_id].verification_feedback =
                 Append(@, IF passed THEN "passed" ELSE "failed")]
    IN  IF passed THEN update_task_status(b1, task_id, COMPLETE)
        ELSE LET r == increment_iteration(b1, task_id)
             IN  IF r.err # "none" THEN r
                 ELSE IF r.b.tasks[task_id].current_iterations
                           < r.b.tasks[task_id].max_iterations
                      THEN update_task_status(r.b, task_id, REWORK_NEEDED)
                      ELSE r

\* mutant: every recorded item is counted, whatever its verdict
Count_any(q, x) == Len(q)

Count(q, x) == Cardinality({i \in DOMAIN q : q[i] = x})

handle_feedback(b, task_id, verdict) ==
  IF task_id \notin DOMAIN b.tasks THEN Raise(b, "KeyError")
  ELSE
    LET b1 == [b EXCEPT !.tasks[task_id].verification_feedback = Append(@, verdict)]
        fb == b1.tasks[task_id].verification_feedback
        approve_count == Count(fb, "approve")
        reject_count  == Count(fb, "reject")
    IN  IF approve_count > 0 /\ reject_count > 0 /\ Len(fb) >= feedback_threshold
        THEN escalate_task(b1, task_id)
        ELSE IF approve_count > 0 /\ reject_count = 0
             THEN update_task_status(b1, task_id, COMPLETE)
        ELSE IF reject_count > 0 /\ approve_count = 0
             THEN update_task_status(b1, task_id, REWORK_NEEDED)
        ELSE Ok(b1)

\* ids are Python strings and compare as strings: the decimal digits of the
\* number standing for an id, compared left to right, a proper prefix first
RECURSIVE Digits(_)
Digits(n) == IF n < 10 THEN <<n>> ELSE Append(Digits(n \div 10), n % 10)

RECURSIVE SeqLess(_, _)
SeqLess(p, q) ==
  IF p = <<>> THEN q # <<>>
  ELSE IF q = <<>> THEN FALSE
  ELSE IF Head(p) # Head(q) THEN Head(p) < Head(q)
  ELSE SeqLess(Tail(p), Tail(q))

IdLess(x, y) == SeqLess(Digits(x), Digits(y))

\* tuple order of the heap entries (priority, task_id)
EntryLeq(e, f) == e[1] < f[1] \/ (e[1] = f[1] /\ (e[2] = f[2] \/ IdLess(e[2], f[2])))

heappop(pq) == CHOOSE e \in pq : \A f \in pq : EntryLeq(e, f)

RECURSIVE get_next_priority_task(_)
get_next_priority_task(b) ==
  IF b.pq = {} THEN Return(b, 0)
  ELSE
    LET task_id == heappop(b.pq)[2]
        b1 == [b EXCEPT !.pq = @ \ {heappop(b.pq)}]
    IN  IF task_id \notin DOMAIN b1.tasks THEN get_next_priority_task(b1)
        ELSE IF b1.tasks[task_id].status = WAITING /\ check_dependencies(b1, task_id)
        THEN LET r == update_task_status(b1, task_id, IN_PROGRESS)
             IN  IF r.err # "none" THEN r ELSE Return(r.b, task_id)
        ELSE IF b1.tasks[task_id].status = IN_PROGRESS THEN Return(b1, task_id)
        ELSE
          LET b2 == [b1 EXCEPT !.pq = @ \cup {<<b1.tasks[task_id].priority, task_id>>}]
          IN  \* the board is as it was before the pop: the loop repeats for ever
              IF b2 = b THEN Raise(b, "diverge") ELSE get_next_priority_task(b2)

update_priority(b, task_id, new_priority) ==
  IF task_id \notin DOMAIN b.tasks THEN Raise(b, "KeyError")
  ELSE IF ~(1 <= new_priority /\ new_priority <= 5) THEN Raise(b, "ValueError")
  ELSE
    LET b1 == [b EXCEPT !.tasks[task_id].priority = new_priority]
        b2 == [b1 EXCEPT !.pq = {<<b1.tasks[t].priority, t>> : t \in DOMAIN b1.tasks}]
    IN  Ok(emit_task_event(b2, Event("PRIORITY_UPDATED", task_id)))

\* parent_id = 0 stands for None; subtasks is the number of goals in the list
RECURSIVE add_subtask(_, _, _)
RECURSIVE add_subtask_each(_, _, _)
add_subtask(b, parent_id, subtasks) ==
  LET task_id == Cardinality(DOMAIN b.tasks) + 1
      task == TaskBoardEntry(IF parent_id # 0 THEN {parent_id} ELSE {},
                             SubtaskPriority, DefaultMaxIterations)
      r == add_task(b, task_id, task)
  IN  IF r.err # "none" THEN r
      ELSE LET r2 == add_subtask_each(r.b, task_id, subtasks)
           IN  IF r2.err # "none" THEN r2 ELSE Return(r2.b, task_id)
add_subtask_each(b, task_id, subtasks) ==
  IF subtasks = 0 THEN Ok(b)
  ELSE LET r == add_subtask(b, task_id, 0)
       IN  IF r.err # "none" THEN r ELSE add_subtask_each(r.b, task_id, subtasks - 1)

update_dependencies(b, task_id, new_dependencies) ==
  IF task_id \notin DOMAIN b.tasks THEN Raise(b, "KeyError")
  ELSE IF \E dep_id \in new_dependencies : dep_id \notin DOMAIN b.tasks
  THEN Raise(b, "ValueError")
  ELSE IF detect_cycles_in_graph(Put(b.graph, task_id, new_dependencies), b.order)
  THEN Raise(b, "CircularDependencyError")
  ELSE
    LET b1 == [b EXCEPT !.tasks[task_id].dependencies = new_dependencies,
                        !.graph[task_id] = new_dependencies]
        r  == IF b1.tasks[task_id].status = IN_PROGRESS
                   /\ ~check_dependencies(b1, task_id)
              THEN update_task_status(b1, task_id, WAITING)
              ELSE Ok(b1)
    IN  IF r.err # "none" THEN r
        ELSE Ok(emit_task_event(r.b, [Event("DEPENDENCIES_UPDATED", task_id)
                                        EXCEPT !.deps = new_dependencies]))

\* subtasks is the list of the subtasks' "dependencies" (default [])
RECURSIVE break_down_each(_, _, _, _)
break_down_each(b, task_id, subtasks, subtask_ids) ==
  IF subtasks = <<>> THEN Return(b, subtask_ids)
  ELSE
    LET id == SubId(task_id, Len(subtask_ids))
        subtask == TaskBoardEntry(Head(subtasks), b.tasks[task_id].priority,
                                  b.tasks[task_id].max_iterations)
        r == add_task(b, id, subtask)
    IN  IF r.err # "none" THEN r
        ELSE break_down_each(r.b, task_id, Tail(subtasks), Append(subtask_ids, id))

break_down_task(b, task_id, subtasks) ==
  IF task_id \notin DOMAIN b.tasks THEN Raise(b, "KeyError")
  ELSE
    LET r == break_down_each(b, task_id, subtasks, <<>>)
    IN  IF r.err # "none" THEN r
        ELSE update_dependencies(r.b, task_id, Range(r.ret))

\* ------------------------------------------- suspension at the event sink
\* update_task_status(task_id, COMPLETE) is a coroutine: it can be suspended
\* at each "await self.event_stream.emit(event)".  The first such await is in
\* the nested update_task_status(dep, IN_PROGRESS) of the first dependent that
\* has become ready, after that dependent's status write, or, if no dependent
\* is started, the emit of the task's own STATUS_CHANGED.
\* A suspended call is [b, err, rest, pending, old]: the board as written so
\* far, the dependents still to visit, the event about to be emitted.
RECURSIVE complete_scan(_, _, _, _)
complete_scan(b, task_id, old_status, blocked) ==
  IF blocked = <<>>
  THEN [b |-> b, err |-> "none", rest |-> <<>>, own |-> TRUE,
        pending |-> StatusEvent(task_id, old_status, COMPLETE), old |-> old_status]
  ELSE LET dep_task_id == Head(blocked)
           dep_task    == b.tasks[dep_task_id]
       IN  IF dep_task.output.kind = "payload"
           THEN [b |-> b, err |-> "TypeError", rest |-> <<>>, own |-> FALSE,
                 pending |-> StatusEvent(task_id, old_status, COMPLETE),
                 old |-> old_status]
           ELSE LET b1 == [b EXCEPT !.tasks[dep_task_id].output =
                              MergeOutput(@, task_id, b.tasks[task_id].output)]
                IN  IF check_dependencies(b1, dep_task_id)
                    THEN IF IN_PROGRESS \notin VALID_TRANSITIONS(dep_task.status)
                         THEN [b |-> b1, err |-> "InvalidTransitionError",
                               rest |-> <<>>, own |-> FALSE,
                               pending |-> StatusEvent(task_id, old_status, COMPLETE),
                               old |-> old_status]
                         ELSE [b |-> [b1 EXCEPT !.tasks[dep_task_id].status = IN_PROGRESS],
                               err |-> "none", rest |-> Tail(blocked), own |-> FALSE,
                               pending |-> StatusEvent(dep_task_id, dep_task.status,
                                                       IN_PROGRESS),
                               old |-> old_status]
                    ELSE complete_scan(b1, task_id, old_status, Tail(blocked))

\* the call up to its first suspension; task_id is stored and PENDING_REVIEW
complete_until_emit(b, task_id) ==
  LET b1 == [b EXCEPT !.tasks[task_id].status = COMPLETE]
  IN  complete_scan(b1, task_id, b.tasks[task_id].status,
                    get_blocked_tasks(b1, task_id))

\* the rest of the suspended call s, run on the board b it finds on resuming
complete_resume(b, task_id, s) ==
  LET b1 == emit_task_event(b, s.pending)
  IN  IF s.own THEN Ok(b1)
      ELSE LET r == complete_each(b1, task_id, s.rest)
           IN  IF r.err # "none" THEN r
               ELSE Ok(emit_task_event(r.b, StatusEvent(task_id, s.old, COMPLETE)))

\* the operation that runs while the first is suspended: the scheduler when
\* ids is empty, update_task_status(t, status) for ids = {t} otherwise
SecondOp(b, ids, status) ==
  IF ids = {} THEN get_next_priority_task(b)
  ELSE update_task_status(b, CHOOSE t \in ids : TRUE, status)

\* ------------------------------------------------------------ the driver
\* The driver issues one board operation per step.  Each action takes the
\* sets its inputs are drawn from, so that one operation can be driven with
\* the inputs a family of properties is about.
Ids == BaseIds \cup DOMAIN tasks

\* the dependency lists of at most n entries over the ids offered
DepSets(n) == {D \in SUBSET BaseIds : Cardinality(D) <= n}

\* the subtask lists of at most n entries, each a "dependencies" value
SubtaskLists(depsets, n) == UNION {[1..k -> depsets] : k \in 0..n}

Call(op, task_id, arg, set) ==
  [op |-> op, task |-> task_id, arg |-> arg, set |-> set,
   err |-> "none", ret |-> 0, same |-> FALSE]

\* the board after the call, what it emitted, how it ended; same records
\* that the call left the board exactly as it found it
Done(r, call) ==
  /\ tasks' = r.b.tasks
  /\ dependency_graph' = r.b.graph
  /\ order' = r.b.order
  /\ priority_queue' = r.b.pq
  /\ events' = r.b.events
  /\ last' = [call EXCEPT !.err = r.err,
                          !.ret = IF r.ret \in Int THEN r.ret ELSE 0,
                          !.same = ([r.b EXCEPT !.events = <<>>, !.calls = 0]
                                      = Board)]
  /\ steps' = steps - 1
  /\ UNCHANGED <<board, agent>>

\* steps is the number of operations the driver may still issue.  A run ends
\* when the budget is used up, when a call never returns, and at a call that
\* raised without touching the board: what could follow that call is what
\* can follow the state it was issued in.
Running ==
  /\ steps > 0
  /\ last.err # "diverge"
  /\ ~(last.err # "none" /\ last.same)

InitBoard ==
  /\ tasks = EmptyMap
  /\ dependency_graph = EmptyMap
  /\ order = <<>>
  /\ priority_queue = {}
  /\ events = <<>>
  /\ last = Call("init", 0, "", {})
  /\ board = EmptyMap
  /\ agent = [op |-> "init"]

AddTask(ids, depsets, prios, maxits) ==
  /\ Running
  /\ \E id \in ids, deps \in depsets, prio \in prios, maxit \in maxits :
       Done(add_task(Board, id, TaskBoardEntry(deps, prio, maxit)),
            Call("add_task", id, "", deps))

RemoveTask(ids) ==
  /\ Running
  /\ \E t \in ids : Done(remove_task(Board, t), Call("remove_task", t, "", {}))

UpdateTaskStatus(ids, statuses) ==
  /\ Running
  /\ \E t \in ids, s \in statuses :
       Done(update_task_status(Board, t, s), Call("update_task_status", t, s, {}))

HandleEvent(ids, kinds) ==
  /\ Running
  /\ \E t \in ids, kind \in kinds, p \in Payloads :
       Done(handle_event(Board, kind, t, Payload(p)), Call("handle_event", t, kind, {}))

CanRecord(t) ==
  t \in DOMAIN tasks => Len(tasks[t].verification_feedback) < MaxFeedback

HandleVerificationResult(ids) ==
  /\ Running
  /\ \E t \in ids, passed \in BOOLEAN :
       /\ CanRecord(t)
       /\ Done(handle_verification_result(Board, t, passed),
               Call("handle_verification_result", t,
                    IF passed THEN "passed" ELSE "failed", {}))

HandleFeedback(ids) ==
  /\ Running
  /\ \E t \in ids, verdict \in Verdicts :
       /\ CanRecord(t)
       /\ Done(handle_feedback(Board, t, verdict), Call("handle_feedback", t, verdict, {}))

GetNextPriorityTask ==
  /\ Running
  /\ Done(get_next_priority_task(Board), Call("get_next_priority_task", 0, "", {}))

UpdatePriority(ids, prios) ==
  /\ Running
  /\ \E t \in ids, p \in prios :
       Done(update_priority(Board, t, p), Call("update_priority", t, "", {p}))

AddSubtask(parents, counts) ==
  /\ Running
  /\ \E parent \in parents, n \in counts :
       Done(add_subtask(Board, parent, n), Call("add_subtask", parent, "", {n}))

UpdateDependencies(ids, depsets) ==
  /\ Running
  /\ \E t \in ids, deps \in depsets :
       Done(update_dependencies(Board, t, deps), Call("update_dependencies", t, "", deps))

BreakDownTask(ids, lists) ==
  /\ Running
  /\ \E t \in ids, subtasks \in lists :
       Done(break_down_task(Board, t, subtasks),
            Call("break_down_task", t, "", UNION Range(subtasks)))

\* update_task_status(t, COMPLETE) is suspended at its first emit, a second
\* operation runs to its end, then the first is resumed and runs to its end
Interleave(ids, seconds, statuses) ==
  /\ Running
  /\ \E t \in ids, c \in seconds, st \in statuses :
       /\ tasks[t].status = PENDING_REVIEW
       /\ LET s  == complete_until_emit(Board, t)
              r2 == SecondOp(s.b, c, st)
          IN  /\ s.err = "none"
              /\ r2.err # "diverge"
              /\ Done(complete_resume(r2.b, t, s), Call("interleave", t, st, c))

\* ---- the general driver: the operations that read or write a status, on
\* stored and on unknown ids
Init == InitBoard /\ steps = MaxSteps

Next ==
  \/ AddTask(BaseIds, SUBSET BaseIds, {DefaultPriority}, {1})
  \/ RemoveTask(Ids)
  \/ UpdateTaskStatus(Ids, TaskStatus)
  \/ HandleEvent(Ids, {"finish", "reject"})
  \/ HandleVerificationResult(Ids)
  \/ HandleFeedback(Ids)
  \/ GetNextPriorityTask
  \/ UpdateDependencies(Ids, SUBSET Ids)

Spec == Init /\ [][Next]_vars

\* ---- the graph driver: the operations that add and remove nodes and edges
InitGraph == InitBoard /\ steps = MaxGraphSteps

NextGraph ==
  \/ AddTask(BaseIds, DepSets(1), {DefaultPriority}, {1})
  \/ AddSubtask({0} \cup DOMAIN tasks, {0, 1})
  \/ UpdateDependencies(DOMAIN tasks, DepSets(1))
  \/ BreakDownTask(DOMAIN tasks, SubtaskLists({{}, {1}}, 1))
  \/ RemoveTask(DOMAIN tasks)
  \/ UpdateTaskStatus(DOMAIN tasks, {STALLED})

SpecGraph == InitGraph /\ [][NextGraph]_vars

\* ---- the cascade driver: dependency shapes, then stalls and abandonments
InitCascade == InitBoard /\ steps = MaxCascadeSteps

NextCascade ==
  \/ AddTask(BaseIds, SUBSET BaseIds, {DefaultPriority}, {1})
  \/ UpdateTaskStatus(DOMAIN tasks, {STALLED, ABANDONED})

SpecCascade == InitCascade /\ [][NextCascade]_vars

\* ---- the review driver: dependency-free tasks through rounds of review
InitReview == InitBoard /\ steps = MaxReviewSteps

NextReview ==
  \/ AddTask({1}, {{}}, {DefaultPriority}, 1..MaxIter)
  \/ HandleEvent(DOMAIN tasks, {"finish"})
  \/ HandleVerificationResult(DOMAIN tasks)
  \/ HandleFeedback(DOMAIN tasks)
  \/ UpdateTaskStatus(DOMAIN tasks, {IN_PROGRESS})

SpecReview == InitReview /\ [][NextReview]_vars

\* ---- the scheduler driver: priorities and the ready queue
InitSched == InitBoard /\ steps = MaxSchedSteps

NextSched ==
  \/ AddTask(BaseIds, DepSets(1), {1, SubtaskPriority}, {1})
  \/ UpdatePriority(DOMAIN tasks, PriorityInputs)
  \/ GetNextPriorityTask
  \/ UpdateTaskStatus(DOMAIN tasks, {PENDING_REVIEW, STALLED})
  \/ RemoveTask(DOMAIN tasks)

SpecSched == InitSched /\ [][NextSched]_vars

\* ---- the recovery driver: tasks started and stalled over dependency edges
InitRecovery == InitBoard /\ steps = MaxRecoverySteps

NextRecovery ==
  \/ AddTask(BaseIds, DepSets(1), {DefaultPriority}, {1})
  \/ UpdateTaskStatus(DOMAIN tasks, {IN_PROGRESS, STALLED})
  \/ RemoveTask(DOMAIN tasks)

SpecRecovery == InitRecovery /\ [][NextRecovery]_vars

\* ---- the priority driver: entries and priority updates with priorities in
\* and out of the range 1..5
InitPriority == InitBoard /\ steps = MaxPrioritySteps

NextPriority ==
  \/ AddTask(BaseIds, {{}}, PriorityInputs, {1})
  \/ UpdatePriority(DOMAIN tasks, PriorityInputs)
  \/ AddSubtask({0} \cup DOMAIN tasks, {0})
  \/ BreakDownTask(DOMAIN tasks, SubtaskLists({{}}, 1))

SpecPriority == InitPriority /\ [][NextPriority]_vars

\* ---- the interleaving driver: a completion cascade and an operation that
\* starts while the cascade is suspended
InitInterleave == InitBoard /\ steps = MaxInterleaveSteps

NextInterleave ==
  \/ AddTask(BaseIds, DepSets(1), {DefaultPriority}, {1})
  \/ UpdateTaskStatus(DOMAIN tasks, {PENDING_REVIEW})
  \/ Interleave(DOMAIN tasks, {{}} \cup {{t} : t \in DOMAIN tasks},
                {IN_PROGRESS, PENDING_REVIEW})

SpecInterleave == InitInterleave /\ [][NextInterleave]_vars

\* =================================================================
\* Properties
\* =================================================================

\* the legality table of section 4.2, as pairs (from, to)
LegalityTable ==
  {<<WAITING, IN_PROGRESS>>, <<WAITING, ABANDONED>>,
   <<IN_PROGRESS, PENDING_REVIEW>>, <<IN_PROGRESS, STALLED>>,
   <<PENDING_REVIEW, COMPLETE>>, <<PENDING_REVIEW, REWORK_NEEDED>>,
   <<REWORK_NEEDED, IN_PROGRESS>>, <<REWORK_NEEDED, ABANDONED>>,
   <<STALLED, IN_PROGRESS>>, <<STALLED, ABANDONED>>}

\* the tasks reachable from the set S along dependency edges, S included
RECURSIVE Closure(_, _)
Closure(graph, S) ==
  LET N == S \cup UNION {graph[x] : x \in S \cap DOMAIN graph}
  IN  IF N = S THEN S ELSE Closure(graph, N)

\* the tasks t depends on, directly or through other tasks
DependsOn(graph, t) == Closure(graph, graph[t])

\* C1: after any sequence of add_task, update_dependencies, break_down_task
\* and remove_task calls, returned or raised, the dependency graph has no
\* cycle: no task depends on itself, directly or through other tasks.
C1_Acyclic ==
  \A t \in DOMAIN dependency_graph : t \notin DependsOn(dependency_graph, t)

\* a dependency set that would have closed a cycle was offered and refused,
\* on a graph that has edges
C1_Witness ==
  /\ last.op = "update_dependencies"
  /\ last.err = "CircularDependencyError"
  /\ last.task \notin last.set
  /\ \E t \in DOMAIN dependency_graph : dependency_graph[t] # {}

\* C2: a request update_task_status(t, s) on a stored task t for which
\* (status of t, s) is not in the legality table raises
\* InvalidTransitionError, changes the status of no task and emits nothing.
C2_IllegalRejected ==
  [][(/\ last'.op = "update_task_status"
      /\ last'.task \in DOMAIN tasks
      /\ <<tasks[last'.task].status, last'.arg>> \notin LegalityTable)
     => (/\ last'.err = "InvalidTransitionError"
         /\ DOMAIN tasks' = DOMAIN tasks
         /\ \A t \in DOMAIN tasks : tasks'[t].status = tasks[t].status
         /\ events' = <<>>)]_vars

\* a request on a COMPLETE task was refused
C2_Witness ==
  /\ last.op = "update_task_status"
  /\ last.err = "InvalidTransitionError"
  /\ last.task \in DOMAIN tasks
  /\ tasks[last.task].status = COMPLETE

\* C3: in every step, a stored task whose status changes from old to new
\* changes along an edge (old, new) of the legality table; so a task that is
\* COMPLETE or ABANDONED keeps its status as long as it is stored.
C3_LegalChanges ==
  [][\A t \in DOMAIN tasks \cap DOMAIN tasks' :
        tasks'[t].status # tasks[t].status
        => <<tasks[t].status, tasks'[t].status>> \in LegalityTable]_vars

\* an operation on one task has changed the status of another task
C3_Witness ==
  \E i \in DOMAIN events :
    /\ events[i].type = "STATUS_CHANGED"
    /\ events[i].task # last.task
    /\ events[i].task \in DOMAIN tasks
    /\ tasks[events[i].task].status = events[i].new

\* ready, as the scheduler understands it: WAITING with every dependency
\* COMPLETE, or IN_PROGRESS
Ready(t) ==
  \/ tasks[t].status = IN_PROGRESS
  \/ /\ tasks[t].status = WAITING
     /\ \A d \in dependency_graph[t] : tasks[d].status = COMPLETE

Dependents(graph, A) == {B \in DOMAIN graph : A \in DependsOn(graph, B)}

\* C5: update_task_status(A, ABANDONED) along a legal edge, on an acyclic
\* graph in which every transitive dependent of A is WAITING, returns without
\* error and leaves every transitive dependent of A ABANDONED.
C5_AbandonCascades ==
  [][(/\ last'.op = "update_task_status"
      /\ last'.arg = ABANDONED
      /\ last'.task \in DOMAIN tasks
      /\ <<tasks[last'.task].status, ABANDONED>> \in LegalityTable
      /\ \A t \in DOMAIN dependency_graph : t \notin DependsOn(dependency_graph, t)
      /\ \A B \in Dependents(dependency_graph, last'.task) : tasks[B].status = WAITING)
     => (/\ last'.err = "none"
         /\ \A B \in Dependents(dependency_graph, last'.task) :
              tasks'[B].status = ABANDONED)]_vars

\* C6: a failed verification that brings current_iterations of a task to its
\* max_iterations leaves the task STALLED, and no task is left in
\* REWORK_NEEDED with current_iterations >= max_iterations.
C6_IterationCap ==
  \A t \in DOMAIN tasks :
    /\ tasks[t].status = REWORK_NEEDED
       => tasks[t].current_iterations < tasks[t].max_iterations
    /\ (/\ last.task = t
        /\ \/ last.op = "handle_verification_result" /\ last.arg = "failed"
           \/ last.op = "handle_feedback" /\ last.arg = "reject"
        /\ ~last.same
        /\ tasks[t].current_iterations >= tasks[t].max_iterations)
       => tasks[t].status = STALLED

\* C7: once the verdicts recorded through handle_feedback for a task hold an
\* approval and a rejection and number feedback_threshold, the task is
\* STALLED (and so is not COMPLETE).
C7_ConflictEscalates ==
  \A t \in DOMAIN tasks :
    LET fb == tasks[t].verification_feedback
    IN  (/\ Len(fb) = feedback_threshold
         /\ Range(fb) = Verdicts)
        => tasks[t].status = STALLED

\* C8: after remove_task(X) has returned, X is not stored, is neither a key
\* nor a member of a set of the dependency graph, is in no remaining entry's
\* dependencies field and has no entry in the priority queue.
C8_RemovedEverywhere ==
  (last.op = "remove_task" /\ last.err = "none")
  => /\ last.task \notin DOMAIN tasks
     /\ last.task \notin DOMAIN dependency_graph
     /\ \A t \in DOMAIN dependency_graph : last.task \notin dependency_graph[t]
     /\ \A t \in DOMAIN tasks : last.task \notin tasks[t].dependencies
     /\ \A e \in priority_queue : e[2] # last.task

\* C9: when get_next_priority_task returns a task t, no other stored task
\* that was ready when the call was made has a smaller (priority, id) pair.
C9_LowestReadyFirst ==
  [][(/\ last'.op = "get_next_priority_task"
      /\ last'.err = "none"
      /\ last'.ret # 0)
     => \A u \in DOMAIN tasks \ {last'.ret} :
          Ready(u) => EntryLeq(<<tasks[last'.ret].priority, last'.ret>>,
                               <<tasks[u].priority, u>>)]_vars

\* C10: add_task of a WAITING entry with a fresh id whose dependencies are all
\* stored returns without error and leaves the task WAITING if it has a
\* dependency and IN_PROGRESS if it has none.
C10_InitialStatus ==
  [][(/\ last'.op = "add_task"
      /\ last'.task \notin DOMAIN tasks
      /\ last'.set \subseteq DOMAIN tasks)
     => (/\ last'.err = "none"
         /\ last'.task \in DOMAIN tasks'
         /\ tasks'[last'.task].status =
              IF last'.set # {} THEN WAITING ELSE IN_PROGRESS)]_vars

\* C11: a call of add_task that raises leaves the task store, the dependency
\* graph and the priority queue exactly as they were before the call, and
\* emits no event.
C11_AddTaskAtomic ==
  [][(last'.op = "add_task" /\ last'.err # "none")
     => (/\ tasks' = tasks
         /\ dependency_graph' = dependency_graph
         /\ order' = order
         /\ priority_queue' = priority_queue
         /\ events' = <<>>)]_vars

\* C12: a call of update_task_status that raises after its own legality check
\* has passed leaves the status, the output and current_iterations of every
\* task as they were before the call, and emits no event.
C12_StatusUpdateAtomic ==
  [][(/\ last'.op = "update_task_status"
      /\ last'.err # "none"
      /\ last'.task \in DOMAIN tasks
      /\ <<tasks[last'.task].status, last'.arg>> \in LegalityTable)
     => (/\ DOMAIN tasks' = DOMAIN tasks
         /\ \A t \in DOMAIN tasks :
              /\ tasks'[t].status = tasks[t].status
              /\ tasks'[t].output = tasks[t].output
              /\ tasks'[t].current_iterations = tasks[t].current_iterations
         /\ events' = <<>>)]_vars

\* C13: a call of update_dependencies that raises leaves the task's
\* dependencies field, the dependency graph and every task's status as they
\* were before the call, and emits no DEPENDENCIES_UPDATED event.
C13_UpdateDependenciesAtomic ==
  [][(last'.op = "update_dependencies" /\ last'.err # "none")
     => (/\ dependency_graph' = dependency_graph
         /\ DOMAIN tasks' = DOMAIN tasks
         /\ \A t \in DOMAIN tasks :
              /\ tasks'[t].dependencies = tasks[t].dependencies
              /\ tasks'[t].status = tasks[t].status
         /\ \A i \in DOMAIN events' : events'[i].type # "DEPENDENCIES_UPDATED")]_vars

\* C14: a call of handle_feedback or handle_verification_result that raises
\* leaves the task's verification_feedback, current_iterations and status as
\* they were before the call, and emits no event.
C14_ReviewAtomic ==
  [][(/\ last'.op \in {"handle_feedback", "handle_verification_result"}
      /\ last'.err # "none"
      /\ last'.task \in DOMAIN tasks)
     => (/\ last'.task \in DOMAIN tasks'
         /\ tasks'[last'.task].verification_feedback
              = tasks[last'.task].verification_feedback
         /\ tasks'[last'.task].current_iterations
              = tasks[last'.task].current_iterations
         /\ tasks'[last'.task].status = tasks[last'.task].status
         /\ events' = <<>>)]_vars

\* C15: update_dependencies on an IN_PROGRESS task, with a new dependency set
\* whose members are all stored, that closes no cycle and that holds a task
\* that is not COMPLETE, returns without error and leaves the task WAITING
\* with the new dependency set.
C15_PushedBackToWaiting ==
  [][(/\ last'.op = "update_dependencies"
      /\ last'.task \in DOMAIN tasks
      /\ tasks[last'.task].status = IN_PROGRESS
      /\ last'.set \subseteq DOMAIN tasks
      /\ last'.task \notin Closure(Put(dependency_graph, last'.task, last'.set),
                                   last'.set)
      /\ \E d \in last'.set : tasks[d].status # COMPLETE)
     => (/\ last'.err = "none"
         /\ tasks'[last'.task].status = WAITING
         /\ tasks'[last'.task].dependencies = last'.set
         /\ dependency_graph'[last'.task] = last'.set)]_vars

\* C16: in every reachable state, every task that is IN_PROGRESS has all the
\* tasks of its dependency set COMPLETE.
C16_RunsOnlyWhenReady ==
  \A t \in DOMAIN tasks :
    tasks[t].status = IN_PROGRESS
    => \A d \in dependency_graph[t] : tasks[d].status = COMPLETE

\* C17: when get_next_priority_task returns an id, that task is stored and
\* IN_PROGRESS, and at the time of the call it was stored and either
\* IN_PROGRESS or WAITING with all its dependencies COMPLETE; no call of the
\* scheduler adds or removes a task or changes the status of a task other
\* than the one it returns.
C17_SchedulerReturnsReady ==
  [][(last'.op = "get_next_priority_task")
     => (/\ DOMAIN tasks' = DOMAIN tasks
         /\ \A u \in DOMAIN tasks \ {last'.ret} : tasks'[u].status = tasks[u].status
         /\ (last'.err = "none" /\ last'.ret # 0)
            => (/\ last'.ret \in DOMAIN tasks
                /\ Ready(last'.ret)
                /\ tasks'[last'.ret].status = IN_PROGRESS))]_vars

\* the scheduler has started a WAITING task and returned it
C17_Witness ==
  /\ last.op = "get_next_priority_task"
  /\ last.err = "none"
  /\ last.ret \in DOMAIN tasks
  /\ tasks[last.ret].status = IN_PROGRESS
  /\ \E i \in DOMAIN events :
       /\ events[i].type = "STATUS_CHANGED"
       /\ events[i].task = last.ret
       /\ events[i].old = WAITING

\* C18: among the events of one operation, the STATUS_CHANGED event of a
\* task's completion comes before the STATUS_CHANGED event of every dependent
\* that this completion has moved from WAITING to IN_PROGRESS.
C18_CompletionEventFirst ==
  \A i \in DOMAIN events, j \in DOMAIN events :
    (/\ events[i].type = "STATUS_CHANGED"
     /\ events[i].new = COMPLETE
     /\ events[j].type = "STATUS_CHANGED"
     /\ events[j].old = WAITING
     /\ events[j].new = IN_PROGRESS
     /\ events[j].task \in DOMAIN dependency_graph
     /\ events[i].task \in dependency_graph[events[j].task])
    => i < j

\* C19: at the end of every operation, returned or raised, each stored task
\* whose status the operation has changed has a STATUS_CHANGED event among
\* the events of that operation, carrying the status the task now has.
C19_EveryChangeAnnounced ==
  [][\A t \in DOMAIN tasks \cap DOMAIN tasks' :
        tasks'[t].status # tasks[t].status
        => \E i \in DOMAIN events' :
             /\ events'[i].type = "STATUS_CHANGED"
             /\ events'[i].task = t
             /\ events'[i].new = tasks'[t].status]_vars

\* C20: handle_event on an IN_PROGRESS task returns without error; with an
\* agent-finish action it stores the action's output in the task and leaves
\* the task PENDING_REVIEW, with an agent-reject action it leaves the task
\* ABANDONED.
C20_ExecutorOutcomeRouted ==
  [][(/\ last'.op = "handle_event"
      /\ last'.task \in DOMAIN tasks
      /\ tasks[last'.task].status = IN_PROGRESS)
     => (/\ last'.err = "none"
         /\ last'.arg = "finish"
            => /\ tasks'[last'.task].status = PENDING_REVIEW
               /\ tasks'[last'.task].output \in {Payload(p) : p \in Payloads}
         /\ last'.arg = "reject"
            => tasks'[last'.task].status = ABANDONED)]_vars

\* C21: handle_verification_result on a PENDING_REVIEW task returns without
\* error and leaves the task COMPLETE when passed is true, STALLED when
\* passed is false and this failure brings current_iterations to
\* max_iterations, and REWORK_NEEDED when passed is false otherwise.
C21_VerdictRouted ==
  [][(/\ last'.op = "handle_verification_result"
      /\ last'.task \in DOMAIN tasks
      /\ tasks[last'.task].status = PENDING_REVIEW)
     => (/\ last'.err = "none"
         /\ tasks'[last'.task].status =
              IF last'.arg = "passed" THEN COMPLETE
              ELSE IF tasks[last'.task].current_iterations + 1
                        >= tasks[last'.task].max_iterations
                   THEN STALLED
                   ELSE REWORK_NEEDED)]_vars

\* C22: after handle_feedback on a PENDING_REVIEW task, the task is COMPLETE
\* if the verdicts recorded for it are all approvals, REWORK_NEEDED if they
\* are all rejections, and, if they hold both kinds and number fewer than
\* feedback_threshold, still PENDING_REVIEW, the call having returned without
\* error and emitted nothing.
C22_VerdictTally ==
  [][(/\ last'.op = "handle_feedback"
      /\ last'.task \in DOMAIN tasks
      /\ tasks[last'.task].status = PENDING_REVIEW)
     => LET fb == tasks'[last'.task].verification_feedback
            approved == \E i \in DOMAIN fb : fb[i] = "approve"
            rejected == \E i \in DOMAIN fb : fb[i] = "reject"
        IN  /\ (approved /\ ~rejected) => tasks'[last'.task].status = COMPLETE
            /\ (rejected /\ ~approved) => tasks'[last'.task].status = REWORK_NEEDED
            /\ (approved /\ rejected /\ Len(fb) < feedback_threshold)
               => /\ tasks'[last'.task].status = PENDING_REVIEW
                  /\ last'.err = "none"
                  /\ events' = <<>>]_vars

\* a verdict has made the tally of a task under review mixed and below the
\* threshold, and the task has stayed in PENDING_REVIEW
C22_Witness ==
  /\ last.op = "handle_feedback"
  /\ last.err = "none"
  /\ last.task \in DOMAIN tasks
  /\ tasks[last.task].status = PENDING_REVIEW
  /\ Range(tasks[last.task].verification_feedback) = Verdicts
  /\ Len(tasks[last.task].verification_feedback) < feedback_threshold

\* C23: handle_verification_result and handle_feedback on a stored task that
\* is not in PENDING_REVIEW raise a state error and leave the task's
\* verification_feedback, status and current_iterations as they were.
C23_ReviewOnlyWhenPending ==
  [][(/\ last'.op \in {"handle_feedback", "handle_verification_result"}
      /\ last'.task \in DOMAIN tasks
      /\ tasks[last'.task].status # PENDING_REVIEW)
     => (/\ last'.err = "StateError"
         /\ last'.task \in DOMAIN tasks'
         /\ tasks'[last'.task].verification_feedback
              = tasks[last'.task].verification_feedback
         /\ tasks'[last'.task].status = tasks[last'.task].status
         /\ tasks'[last'.task].current_iterations
              = tasks[last'.task].current_iterations)]_vars

\* C24: whenever a task that has been through a rework goes from IN_PROGRESS
\* back to PENDING_REVIEW, its verification_feedback is empty afterwards; and
\* no other step makes a task's verification_feedback shorter.
C24_FeedbackResetOnNewRound ==
  [][\A t \in DOMAIN tasks \cap DOMAIN tasks' :
       /\ (/\ tasks[t].status = IN_PROGRESS
           /\ tasks'[t].status = PENDING_REVIEW
           /\ tasks[t].current_iterations > 0)
          => tasks'[t].verification_feedback = <<>>
       /\ Len(tasks'[t].verification_feedback) < Len(tasks[t].verification_feedback)
          => (tasks[t].status = IN_PROGRESS /\ tasks'[t].status = PENDING_REVIEW)]_vars

\* C25: update_task_status(t, STALLED) along a legal edge, on a task t that
\* has a dependency in ABANDONED or STALLED, returns without error, leaves t
\* STALLED and emits exactly one DEPENDENCY_RECOVERY_NEEDED event, which names
\* those dependencies.
C25_RecoveryOnStall ==
  [][(/\ last'.op = "update_task_status"
      /\ last'.arg = STALLED
      /\ last'.task \in DOMAIN tasks
      /\ <<tasks[last'.task].status, STALLED>> \in LegalityTable
      /\ \E d \in dependency_graph[last'.task] :
           tasks[d].status \in {ABANDONED, STALLED})
     => (/\ last'.err = "none"
         /\ tasks'[last'.task].status = STALLED
         /\ Cardinality({i \in DOMAIN events' :
                           events'[i].type = "DEPENDENCY_RECOVERY_NEEDED"}) = 1
         /\ \A i \in DOMAIN events' :
              events'[i].type = "DEPENDENCY_RECOVERY_NEEDED"
              => /\ events'[i].task = last'.task
                 /\ events'[i].deps = {d \in dependency_graph[last'.task] :
                                         tasks[d].status \in {ABANDONED, STALLED}})]_vars

\* C26: remove_task(X) on a stored task X that other tasks depend on returns
\* without error; if X was not COMPLETE, every task that depended on X is
\* STALLED or ABANDONED afterwards.
C26_RemovalFailsDependents ==
  [][(/\ last'.op = "remove_task"
      /\ last'.task \in DOMAIN tasks
      /\ \E B \in DOMAIN dependency_graph : last'.task \in dependency_graph[B])
     => (/\ last'.err = "none"
         /\ tasks[last'.task].status # COMPLETE
            => \A B \in DOMAIN dependency_graph :
                 last'.task \in dependency_graph[B]
                 => /\ B \in DOMAIN tasks'
                    /\ tasks'[B].status \in {STALLED, ABANDONED})]_vars

\* C27: an id that remove_task has just removed is not stored again by the
\* operation that follows the removal.
C27_IdNotReused ==
  [][(last.op = "remove_task" /\ last.err = "none")
     => last.task \notin DOMAIN tasks']_vars

\* C28: in every reachable state the priority of every stored task is an
\* integer from 1 to 5.
C28_PriorityInRange ==
  \A t \in DOMAIN tasks : tasks[t].priority \in 1..5

\* C29: in every reachable state the dependency graph and the task store have
\* the same keys, and every id in a set of the dependency graph is a key of
\* the task store.
C29_GraphMatchesStore ==
  /\ DOMAIN dependency_graph = DOMAIN tasks
  /\ \A t \in DOMAIN dependency_graph : dependency_graph[t] \subseteq DOMAIN tasks

\* a task that another task was recorded to depend on has been removed
C29_Witness ==
  /\ last.op = "remove_task"
  /\ last.err = "none"
  /\ \E t \in DOMAIN tasks : last.task \in tasks[t].dependencies

\* C30: when a second operation runs while update_task_status(t, COMPLETE) is
\* suspended at an emit, the outcome (task store, dependency graph, priority
\* queue, and how each of the two calls ended) is the outcome of running the
\* two operations one after the other, in one of the two orders.
C30_Serializable ==
  [][(last'.op = "interleave")
     => LET t  == last'.task
            r2 == SecondOp(complete_until_emit(Board, t).b, last'.set, last'.arg)
            a1 == update_task_status(Board, t, COMPLETE)
            a2 == SecondOp(a1.b, last'.set, last'.arg)
            b2 == SecondOp(Board, last'.set, last'.arg)
            b1 == update_task_status(b2.b, t, COMPLETE)
            Same(first, second, final) ==
              /\ tasks' = final.b.tasks
              /\ dependency_graph' = final.b.graph
              /\ priority_queue' = final.b.pq
              /\ last'.err = first.err
              /\ r2.err = second.err
        IN  Same(a1, a2, a2) \/ Same(b1, b2, b1)]_vars

\* =====================================================================
\* The agents of src/agents over the TaskStatusBoard of src/state/board.py
\* =====================================================================
MaxVerifierSteps == 2
MaxResponseLen   == 3

\* ---- src/state/task.py: the statuses of a Task (enum values)
Task_WAITING        == "waiting"
Task_IN_PROGRESS    == "in_progress"
Task_PENDING_REVIEW == "pending_review"
COMPLETED           == "completed"
RE_PROGRESS         == "re_progress"

None == <<>>

\* a Task as the board holds it: status, dependencies, feedback, result
Task(deps, status) ==
  [status |-> status, dependencies |-> deps, feedback |-> None,
   result |-> None]

\* ---- src/state/board.py
TaskStatusBoard_add_task(bd, id, task) == Put(bd, id, task)

\* no legality check; an unknown id is ignored
TaskStatusBoard_update_task_status(bd, task_id, new_status) ==
  IF task_id \in DOMAIN bd
    THEN [bd EXCEPT ![task_id].status = new_status]
    ELSE bd

\* ---- a reply of the language model: a string over a small alphabet
Chars == {"Y", "E", "S", "y"}
Responses == UNION {[1..n -> Chars] : n \in 0..MaxResponseLen}

\* str.upper, letter by letter
upper(c) == IF c = "y" THEN "Y" ELSE c
str_upper(s) == [i \in DOMAIN s |-> upper(s[i])]

\* sub in s
contains(sub, s) ==
  \E i \in 1..(Len(s) - Len(sub) + 1) : SubSeq(s, i, i + Len(sub) - 1) = sub

parse_verification_result_exact(response) ==
  contains(<<"Y", "E", "S">>, response)

\* ---- src/agents/verifier.py
parse_verification_result(response) ==
  contains(<<"Y", "E", "S">>, str_upper(response))

\* verify_task on the task the board holds under task_id, the model's reply
\* being response
verify_task(bd, task_id, response) ==
  LET is_valid == parse_verification_result(response)
      b1 == IF is_valid
              THEN TaskStatusBoard_update_task_status(bd, task_id, COMPLETED)
              ELSE [TaskStatusBoard_update_task_status(bd, task_id, RE_PROGRESS)
                      EXCEPT ![task_id].feedback = response]
  IN [board |-> b1, ret |-> is_valid]

\* ---- driver of the verifier
BoardAddTask(ids, statuses) ==
  /\ steps > 0
  /\ \E id \in ids, status \in statuses :
       /\ board' = TaskStatusBoard_add_task(board, id, Task({}, status))
       /\ agent' = [op |-> "add_task", task |-> id]
  /\ steps' = steps - 1
  /\ UNCHANGED managerVars

VerifyTask(ids, responses) ==
  /\ steps > 0
  /\ \E id \in ids, response \in responses :
       LET r == verify_task(board, id, response)
       IN /\ board' = r.board
          /\ agent' = [op |-> "verify_task", task |-> id,
                       response |-> response, ret |-> r.ret,
                       old |-> board[id].status]
  /\ steps' = steps - 1
  /\ UNCHANGED managerVars

InitVerifier == InitBoard /\ steps = MaxVerifierSteps

NextVerifier ==
  \/ BoardAddTask(BaseIds, {Task_IN_PROGRESS, Task_PENDING_REVIEW})
  \/ VerifyTask(DOMAIN board, Responses)

SpecVerifier == InitVerifier /\ [][NextVerifier]_vars

\* the reply says yes, in any letter case
Affirmative(response) ==
  \E i \in 1..(Len(response) - 2) :
    /\ response[i] \in {"Y", "y"}
    /\ response[i + 1] \in {"E", "e"}
    /\ response[i + 2] \in {"S", "s"}

MaxDelegatorSteps == 3
MaxSubtasks       == 3

\* the id "main" of the main task; subtasks are numbered from 1
MainId == 0

\* a stripped, non-empty line of the reply, by the prefix _parse_subtasks
\* tests: 'Subtask', '1. Subtask ID:', '4. Dependencies:', or none of them
\* ('2. Description:' and '3. Requirements:' fill fields no claim reads)
Line(kind, val) == [kind |-> kind, val |-> val]

\* the reply describing subtasks 1..Len(deps), deps[k] being the dependencies
\* of subtask k, in the format of the prompt's example ("numbered") or in the
\* format of test_delegator_agent_decomposition ("plain")
RECURSIVE Reply(_, _, _)
Reply(deps, format, k) ==
  IF k > Len(deps) THEN <<>>
  ELSE (IF format = "numbered"
          THEN <<Line("Subtask", k), Line("id", k), Line("text", 0),
                 Line("text", 0), Line("deps", deps[k])>>
          ELSE <<Line("Subtask", k), Line("text", 0), Line("text", 0)>>)
       \o Reply(deps, format, k + 1)

\* lines 111-137: the loop over the lines; current_subtask is a dict
RECURSIVE parse_lines(_, _, _)
parse_lines(bd, lines, current_subtask) ==
  IF lines = <<>> THEN [board |-> bd, err |-> "none"]
  ELSE
    LET line == Head(lines)
    IN IF line.kind = "Subtask"
         THEN IF DOMAIN current_subtask # {}
                THEN IF "id" \notin DOMAIN current_subtask
                       THEN [board |-> bd, err |-> "KeyError"]
                       ELSE parse_lines(
                              TaskStatusBoard_add_task(bd, current_subtask["id"],
                                Task(IF "dependencies" \in DOMAIN current_subtask
                                       THEN current_subtask["dependencies"]
                                       ELSE {},
                                     Task_WAITING)),
                              Tail(lines), EmptyMap)
                ELSE parse_lines(bd, Tail(lines), EmptyMap)
       ELSE IF line.kind = "id"
         THEN parse_lines(bd, Tail(lines), Put(current_subtask, "id", line.val))
       ELSE IF line.kind = "deps"
         THEN parse_lines(bd, Tail(lines),
                          Put(current_subtask, "dependencies", line.val))
       ELSE parse_lines(bd, Tail(lines), current_subtask)

\* _parse_subtasks: the local list subtasks stays empty, so the trailing loop
\* (lines 140-141) adds nothing; nothing is returned or stored on self
parse_subtasks(bd, lines) == parse_lines(bd, lines, EmptyMap)

\* decompose_query: the reply is parsed; the result is discarded
decompose_query(bd, lines) == parse_subtasks(bd, lines)

all_tasks_completed(bd) ==
  \A id \in DOMAIN bd \ {MainId} : bd[id].status = COMPLETED

\* process_task(task), task being the object the board holds under task_id
\* or, if the board holds none, an object of its own; self.subtasks is
\* assigned in __init__ only; _aggregate_results reads the task "main"
delegator_process_task(bd, subtasks, task_id, lines) ==
  IF DOMAIN bd \ {MainId} = {}
    THEN LET r == decompose_query(bd, lines)
         IN [board |-> r.board, subtasks |-> subtasks, err |-> r.err]
  ELSE IF all_tasks_completed(bd)
    THEN IF MainId \notin DOMAIN bd
           THEN [board |-> bd, subtasks |-> subtasks, err |-> "AttributeError"]
           ELSE IF task_id \in DOMAIN bd
           THEN [board |-> TaskStatusBoard_update_task_status(
                             [bd EXCEPT ![task_id].result = <<"final">>],
                             task_id, COMPLETED),
                 subtasks |-> subtasks, err |-> "none"]
           ELSE [board |-> bd, subtasks |-> subtasks, err |-> "none"]
  ELSE [board |-> bd, subtasks |-> subtasks, err |-> "none"]

\* ---- driver of the delegator: replies describing n subtasks, each with no
\* dependency or depending on subtask 1
DelegatorProcessTask(counts, formats) ==
  /\ steps > 0
  /\ \E n \in counts, format \in formats :
       \E deps \in [1..n -> {{}, {1}}] :
         LET r == delegator_process_task(board, <<>>, MainId,
                                         Reply(deps, format, 1))
         IN /\ board' = r.board
            /\ agent' = [op |-> "process_task", n |-> n, format |-> format,
                         deps |-> deps, subtasks |-> r.subtasks,
                         initial |-> (DOMAIN board \ {MainId} = {}),
                         err |-> r.err]
  /\ steps' = steps - 1
  /\ UNCHANGED managerVars

BoardUpdateTaskStatus(ids, statuses) ==
  /\ steps > 0
  /\ \E id \in ids, status \in statuses :
       /\ board' = TaskStatusBoard_update_task_status(board, id, status)
       /\ agent' = [op |-> "update_task_status", task |-> id]
  /\ steps' = steps - 1
  /\ UNCHANGED managerVars

InitDelegator == InitBoard /\ steps = MaxDelegatorSteps

NextDelegator ==
  \/ BoardAddTask({MainId}, {Task_WAITING})
  \/ DelegatorProcessTask(1..MaxSubtasks, {"numbered", "plain"})
  \/ BoardUpdateTaskStatus(DOMAIN board \ {MainId}, {COMPLETED})

SpecDelegator == InitDelegator /\ [][NextDelegator]_vars

\* C32: after the initial decomposition (no subtask on the board) of a reply
\* describing N >= 1 subtasks, all N subtasks are WAITING tasks on the board
\* and delegator.subtasks is non-empty.
C32_SubtasksCreated ==
  [][agent'.op = "process_task" /\ agent'.initial =>
       /\ \A k \in 1..agent'.n :
            k \in DOMAIN board' /\ board'[k].status = Task_WAITING
       /\ agent'.subtasks # <<>>]_vars

\* the ids the priority queue holds
Queued(pq) == {e[2] : e \in pq}

\* C33: every call of get_next_priority_task returns: with a ready task if
\* the queue holds one and with None otherwise, also when the queue holds a
\* task that is not ready; the stored tasks that were queued and not ready are
\* still in the queue afterwards.
C33_SchedulerTerminates ==
  [][last'.op = "get_next_priority_task" =>
       LET ready == {t \in Queued(priority_queue) \cap DOMAIN tasks : Ready(t)}
       IN /\ last'.err # "diverge"
          /\ (ready # {}) => last'.ret \in ready
          /\ (ready = {}) => last'.ret = 0
          /\ \A t \in (Queued(priority_queue) \cap DOMAIN tasks) \ ready :
               t \in Queued(priority_queue')]_vars

\* C34: a request update_task_status(t, s) whose (status of t, s) is an edge
\* of the legality table never raises InvalidTransitionError, whatever the
\* statuses of t's dependents and dependencies and t's iteration count.
C34_LegalEdgeAccepted ==
  [][(/\ last'.op = "update_task_status"
      /\ last'.task \in DOMAIN tasks
      /\ last'.arg \in VALID_TRANSITIONS(tasks[last'.task].status))
     => last'.err # "InvalidTransitionError"]_vars

\* C35: a failed verification of a task under review, processed by
\* handle_verification_result or by handle_feedback, increases the task's
\* current_iterations by exactly 1; no other operation changes
\* current_iterations of any task.
C35_OneIterationPerFailure ==
  [][\A t \in DOMAIN tasks \cap DOMAIN tasks' :
       LET failed == /\ last'.task = t
                     /\ tasks[t].status = PENDING_REVIEW
                     /\ \/ last'.op = "handle_verification_result" /\ last'.arg = "failed"
                        \/ last'.op = "handle_feedback" /\ last'.arg = "reject"
       IN tasks'[t].current_iterations
            = tasks[t].current_iterations + (IF failed THEN 1 ELSE 0)]_vars

\* ---- the lifecycle driver: every status request over dependency edges
InitLifecycle == InitBoard /\ steps = MaxLifecycleSteps

NextLifecycle ==
  \/ AddTask(BaseIds, DepSets(1), {DefaultPriority}, {1})
  \/ UpdateTaskStatus(DOMAIN tasks, TaskStatus)

SpecLifecycle == InitLifecycle /\ [][NextLifecycle]_vars

\* C36: every call of update_task_status ends: the completion and abandonment
\* cascades and the mutual recursion between entering STALLED and the recovery
\* procedure make finitely many nested calls, at most two for each stored task
\* and the request itself.
C36_StatusUpdateTerminates ==
  [][last'.op = "update_task_status" =>
       LET r == update_task_status(Board, last'.task, last'.arg)
       IN /\ r.err # "RecursionError"
          /\ r.b.calls <= 2 * Cardinality(DOMAIN tasks) + 1]_vars

\* a request for STALLED has gone through the recovery procedure, whose nested
\* request for STALLED was refused, and the call has ended
C36_Witness ==
  /\ last.op = "update_task_status"
  /\ last.arg = STALLED
  /\ last.err = "InvalidTransitionError"
  /\ \E i \in DOMAIN events : events[i].type = "DEPENDENCY_RECOVERY_NEEDED"

\* C37: a task that is IN_PROGRESS and has dependencies, all of them COMPLETE,
\* holds in its output map an entry for each dependency equal to that
\* dependency's output, also when the task was added, or its dependency set
\* was replaced, after those dependencies had completed.
C37_InputsPresent ==
  \A t \in DOMAIN tasks :
    (/\ tasks[t].status = IN_PROGRESS
     /\ dependency_graph[t] # {}
     /\ \A d \in dependency_graph[t] : d \in DOMAIN tasks /\ tasks[d].status = COMPLETE)
    => (/\ tasks[t].output.kind = "map"
        /\ \A d \in dependency_graph[t] :
             /\ d \in DOMAIN tasks[t].output.map
             /\ tasks[t].output.map[d] = tasks[d].output)

\* ---- detect_circular_dependencies as a function of the graph: every graph
\* over the ids offered, with every insertion order of its keys
MaxDetectSteps == 1

Orders(S) == {q \in [1..Cardinality(S) -> S] : Range(q) = S}

DetectCircularDependencies ==
  /\ steps > 0
  /\ agent' = [op |-> "detect_circular_dependencies",
               cycles |-> detect_circular_dependencies(dependency_graph, order)]
  /\ steps' = steps - 1
  /\ UNCHANGED <<managerVars, board>>

InitCycles ==
  /\ dependency_graph \in [BaseIds -> SUBSET BaseIds]
  /\ order \in Orders(BaseIds)
  /\ tasks = EmptyMap
  /\ priority_queue = {}
  /\ events = <<>>
  /\ last = Call("init", 0, "", {})
  /\ board = EmptyMap
  /\ agent = [op |-> "init"]
  /\ steps = MaxDetectSteps

NextCycles == DetectCircularDependencies

SpecCycles == InitCycles /\ [][NextCycles]_vars

\* the cycles of the graph: sequences of distinct tasks, each depending on
\* the next and the last on the first
CyclesOf(graph) ==
  {c \in UNION {[1..k -> DOMAIN graph] : k \in 1..Cardinality(DOMAIN graph)} :
     /\ \A i, j \in DOMAIN c : i # j => c[i] # c[j]
     /\ \A i \in DOMAIN c : c[(i % Len(c)) + 1] \in graph[c[i]]}

\* chain walks the cycle c once, from one of its tasks back to that task
ChainOf(chain, c) ==
  /\ Len(chain) = Len(c) + 1
  /\ \E r \in 0..(Len(c) - 1) :
       \A j \in DOMAIN chain : chain[j] = c[((j - 1 + r) % Len(c)) + 1]

\* the emptiness half of C38: the list is empty exactly when the graph is
\* acyclic
EmptyIffAcyclic ==
  agent.op = "detect_circular_dependencies" =>
    ((agent.cycles = <<>>) <=>
       (\A t \in DOMAIN dependency_graph : t \notin DependsOn(dependency_graph, t)))

MaxIterations == 4   \* max_iterations of the system
MaxQuerySteps == 5   \* the call and the iterations of its loop

\* the last entry of a non-empty list
Last(q) == q[Len(q)]

\* the keys of the board's dict in insertion order: "main" first, then the
\* subtasks in the order _parse_subtasks met them
Keys(bd) == SortedSeq(DOMAIN bd)

\* src/agents/swe_agent.py: the solution is stored and review is requested
swe_process_task(bd, task_id) ==
  TaskStatusBoard_update_task_status([bd EXCEPT ![task_id].result = <<"diff">>],
                                     task_id, Task_PENDING_REVIEW)

\* lines 91-101: the WAITING tasks whose dependencies are all COMPLETED;
\* get_task of a dependency the board does not hold is None (dependency
\* lists of at most one entry)
RECURSIVE find_ready(_, _)
find_ready(bd, keys) ==
  IF keys = <<>> THEN [ready |-> <<>>, err |-> "none"]
  ELSE LET task_id == Head(keys)
           rest == find_ready(bd, Tail(keys))
       IN IF bd[task_id].status # Task_WAITING THEN rest
          ELSE IF \E dep_id \in bd[task_id].dependencies : dep_id \notin DOMAIN bd
            THEN [ready |-> <<>>, err |-> "AttributeError"]
          ELSE IF rest.err # "none" THEN rest
          ELSE IF \A dep_id \in bd[task_id].dependencies :
                    bd[dep_id].status = COMPLETED
            THEN [ready |-> <<task_id>> \o rest.ready, err |-> "none"]
          ELSE rest

\* lines 105-113: each ready task is set IN_PROGRESS and handed to the
\* executor
RECURSIVE execute_each(_, _)
execute_each(bd, ready) ==
  IF ready = <<>> THEN bd
  ELSE execute_each(
         swe_process_task([bd EXCEPT ![Head(ready)].status = Task_IN_PROGRESS],
                          Head(ready)),
         Tail(ready))

get_tasks_by_status(bd, status) ==
  SelectSeq(Keys(bd), LAMBDA id : bd[id].status = status)

\* VerifierAgent.check_pending_reviews, replies[t] being the reply about t
RECURSIVE verify_each(_, _, _)
verify_each(bd, pending, replies) ==
  IF pending = <<>> THEN bd
  ELSE verify_each(verify_task(bd, Head(pending), replies[Head(pending)]).board,
                   Tail(pending), replies)

check_pending_reviews(bd, replies) ==
  verify_each(bd, get_tasks_by_status(bd, Task_PENDING_REVIEW), replies)

\* lines 172-174
RECURSIVE retry_each(_, _)
retry_each(bd, re_progress_tasks) ==
  IF re_progress_tasks = <<>> THEN bd
  ELSE retry_each(TaskStatusBoard_update_task_status(bd, Head(re_progress_tasks),
                                                     Task_IN_PROGRESS),
                  Tail(re_progress_tasks))

\* one pass of the while loop (lines 73-176).  st.task is the task the local
\* variable task is bound to, st.handed the (task, iteration) pairs of the
\* calls of swe_agent.process_task, st.retry the tasks the previous pass moved
\* from RE_PROGRESS to IN_PROGRESS
iteration(bd, st, lines, replies) ==
  LET d == IF st.current_iteration = 0 \/ all_tasks_completed(bd)
             THEN delegator_process_task(bd, <<>>, st.task, lines)
             ELSE [board |-> bd, subtasks |-> <<>>, err |-> "none"]
      f == find_ready(d.board, Keys(d.board))
  IN IF d.err # "none"
       THEN [board |-> d.board, st |-> [st EXCEPT !.returned = TRUE, !.err = d.err]]
     ELSE IF f.err # "none"
       THEN [board |-> d.board, st |-> [st EXCEPT !.returned = TRUE, !.err = f.err]]
     ELSE
       LET task1 == IF f.ready # <<>> THEN Last(f.ready) ELSE Last(Keys(d.board))
           b2 == execute_each(d.board, f.ready)
           b3 == check_pending_reviews(b2, replies)
           count(status) == Len(get_tasks_by_status(b3, status))
           st1 == [st EXCEPT
                     !.task = task1,
                     !.handed = @ \cup {<<t, st.current_iteration>> : t \in Range(f.ready)},
                     !.rejected = @ \cup Range(get_tasks_by_status(b3, RE_PROGRESS)),
                     !.retry = {}]
           re_progress_tasks == get_tasks_by_status(b3, RE_PROGRESS)
       IN IF b3[task1].status = COMPLETED
            THEN [board |-> b3, st |-> [st1 EXCEPT !.returned = TRUE]]
          ELSE IF /\ count(Task_WAITING) = 0
                  /\ count(Task_IN_PROGRESS) = 0
                  /\ count(Task_PENDING_REVIEW) = 0
                  /\ count(RE_PROGRESS) > 0
            THEN [board |-> b3, st |-> [st1 EXCEPT !.returned = TRUE]]
          ELSE IF /\ st.current_iteration > 0
                  /\ count(Task_IN_PROGRESS) = 0
                  /\ count(Task_PENDING_REVIEW) = 0
            THEN [board |-> b3, st |-> [st1 EXCEPT !.returned = TRUE]]
          ELSE [board |-> retry_each(b3, re_progress_tasks),
                st |-> [st1 EXCEPT
                          !.task = IF re_progress_tasks # <<>>
                                     THEN Last(re_progress_tasks) ELSE task1,
                          !.retry = Range(re_progress_tasks),
                          !.current_iteration = @ + 1,
                          !.returned = (st.current_iteration + 1 >= MaxIterations)]]

\* ---- driver of the system
VerdictReplies == {<<"Y", "E", "S">>, <<"y", "E", "S">>, <<"E">>}

\* process_query(task) up to its loop: the main task is put on the board
ProcessQuery(statuses) ==
  /\ steps > 0
  /\ agent.op = "init"
  /\ \E status \in statuses :
       board' = IF MainId \in DOMAIN board THEN board
                ELSE TaskStatusBoard_add_task(board, MainId, Task({}, status))
  /\ agent' = [op |-> "process_query", current_iteration |-> 0, task |-> MainId,
               handed |-> {}, rejected |-> {}, retry |-> {},
               returned |-> FALSE, err |-> "none"]
  /\ steps' = steps - 1
  /\ UNCHANGED managerVars

Iteration(counts) ==
  /\ steps > 0
  /\ agent.op = "process_query"
  /\ ~agent.returned
  /\ \E n \in counts, replies \in [0..(MaxSubtasks - 1) -> VerdictReplies] :
       \E deps \in [1..n -> {{}, {1}}] :
         LET r == iteration(board, agent, Reply(deps, "numbered", 1), replies)
         IN /\ board' = r.board
            /\ agent' = r.st
  /\ steps' = steps - 1
  /\ UNCHANGED managerVars

InitQuery == InitBoard /\ steps = MaxQuerySteps

NextQuery ==
  \/ ProcessQuery({Task_WAITING, Task_IN_PROGRESS})
  \/ Iteration(1..MaxSubtasks)

SpecQuery == InitQuery /\ [][NextQuery]_vars

\* C39: a subtask that the verifier has sent to RE_PROGRESS, and that the
\* loop has moved on for another attempt, is handed to the executor in the
\* next iteration the loop runs.
C39_RejectedRetried ==
  [][(agent.op = "process_query" /\ agent'.op = "process_query"
        /\ agent'.err = "none")
     => \A t \in agent.retry \ {MainId} :
          <<t, agent.current_iteration>> \in agent'.handed]_vars

\* no subtask the verifier has rejected is COMPLETED later
RejectedNeverCompleted ==
  agent.op = "process_query" =>
    \A t \in agent.rejected \ {MainId} : board[t].status # COMPLETED

\* =====================================================================
\* src/agents/base.py: BaseAgent.retry_with_backoff
\* =====================================================================
MaxRetries    == 3   \* max_retries ranges over 0..MaxRetries
MaxRetrySteps == 1

\* the wrapped call: outcomes[i] tells whether its i-th invocation returns
\* (the value i) or raises (the error i)
Outcomes == [1..(MaxRetries + 1) -> BOOLEAN]

\* the for loop from attempt on (attempt counts from 0); delays are the
\* sleeps made so far.  Leaving the loop reaches "raise last_error";
\* last_error = 0 stands for None, and raising None is a TypeError
RECURSIVE retry_loop(_, _, _, _, _, _)
retry_loop(max_retries, retry_delay, outcomes, attempt, last_error, delays) ==
  IF attempt >= max_retries
    THEN [calls |-> attempt, delays |-> delays, ret |-> 0,
          err |-> IF last_error = 0
                    THEN [kind |-> "TypeError", index |-> 0]
                    ELSE [kind |-> "call", index |-> last_error]]
  ELSE IF outcomes[attempt + 1]
    THEN [calls |-> attempt + 1, delays |-> delays, ret |-> attempt + 1,
          err |-> [kind |-> "none", index |-> 0]]
  ELSE retry_loop(max_retries, retry_delay, outcomes, attempt + 1, attempt + 1,
                  IF attempt < max_retries - 1
                    THEN Append(delays, retry_delay * (2 ^ attempt))
                    ELSE delays)

retry_with_backoff(max_retries, retry_delay, outcomes) ==
  retry_loop(max_retries, retry_delay, outcomes, 0, 0, <<>>)

\* ---- driver: an agent configured with max_retries, and a call to wrap
RetryWithBackoff ==
  /\ steps > 0
  /\ agent.op = "configured"
  /\ agent' = [op |-> "retry_with_backoff", max_retries |-> agent.max_retries,
               outcomes |-> agent.outcomes,
               r |-> retry_with_backoff(agent.max_retries, 1, agent.outcomes)]
  /\ steps' = steps - 1
  /\ UNCHANGED <<managerVars, board>>

InitRetry ==
  /\ tasks = EmptyMap
  /\ dependency_graph = EmptyMap
  /\ order = <<>>
  /\ priority_queue = {}
  /\ events = <<>>
  /\ last = Call("init", 0, "", {})
  /\ board = EmptyMap
  /\ \E max_retries \in 0..MaxRetries, outcomes \in Outcomes :
       agent = [op |-> "configured", max_retries |-> max_retries,
                outcomes |-> outcomes]
  /\ steps = MaxRetrySteps

NextRetry == RetryWithBackoff

SpecRetry == InitRetry /\ [][NextRetry]_vars

\* the claim of C40 for one value m of max_retries
RetryClaim(m, outcomes, r) ==
  LET successes == {i \in 1..m : outcomes[i]}
  IN /\ r.calls <= m
     /\ successes # {} =>
          /\ r.err.kind = "none"
          /\ r.ret = Min(successes)
          /\ r.calls = Min(successes)
     /\ successes = {} =>
          /\ r.err.kind = "call"
          /\ r.err.index = m

\* C40 holds for every max_retries of at least 1
RetryFromOne ==
  (agent.op = "retry_with_backoff" /\ agent.max_retries >= 1)
    => RetryClaim(agent.max_retries, agent.outcomes, agent.r)

\* C40: for every configured max_retries, retry_with_backoff invokes the
\* wrapped call at most max_retries times, returns the first successful
\* result without further attempts, and after max_retries consecutive
\* failures raises the last error the call raised.
C40_RetryBounded ==
  agent.op = "retry_with_backoff"
    => RetryClaim(agent.max_retries, agent.outcomes, agent.r)

====
